---- MODULE Spec2Model ----
(***************************************************************************)
(* A model of app.py: the start-up model selector (get_gemini_model and    *)
(* the module-level initialisation of `model`), the /verify handler        *)
(* (verify_input), the /list-models handler (list_models) and the response *)
(* normaliser (clean_and_parse_json).                                      *)
(*                                                                         *)
(* Texts are TLA+ strings.  A TLA+ string literal cannot hold the          *)
(* backquote character, so the character "~" stands for the backquote of   *)
(* the source everywhere below ("~~~json" is the language-tagged fence).   *)
(***************************************************************************)
EXTENDS Integers, Sequences, FiniteSets, TLC

VARIABLES
    pc_init,    \* position of the module-level start-up code
    idx,        \* index of the candidate the selector loop is at
    probes,     \* the probes made so far: <<candidate, outcome>>
    model,      \* the process-wide handle (module global `model`)
    pc,         \* per request slot: position of verify_input
    req,        \* per request slot: the HTTP request being handled
    user_input, \* per request slot: local variable user_input
    reply,      \* per request slot: what generate_content returned
    calls,      \* per request slot: remote calls made while handling it
    resp,       \* per request slot: the HTTP response
    lm_resp     \* the last response of /list-models

vars == <<pc_init, idx, probes, model, pc, req, user_input, reply, calls,
          resp, lm_resp>>

None == "None"

(***************************************************************************)
(* Bounds of the model.                                                    *)
(***************************************************************************)
NReq == 2

Slots == 1..NReq

(***************************************************************************)
(* get_gemini_model and the module-level initialisation.                   *)
(***************************************************************************)
model_options ==
    << "gemini-1.5-flash", "gemini-1.5-pro", "gemini-pro",
       "models/gemini-1.0-pro" >>


(***************************************************************************)
(* Text helpers: Python's str methods on the texts of the model.           *)
(***************************************************************************)
At(s, i) == IF i >= 1 /\ i <= Len(s) THEN SubSeq(s, i, i) ELSE ""

Whitespace == {" ", "\t", "\n", "\r", "\f"}

RECURSIVE lstrip(_)
lstrip(s) ==
    IF Len(s) > 0 /\ At(s, 1) \in Whitespace
    THEN lstrip(SubSeq(s, 2, Len(s)))
    ELSE s

RECURSIVE rstrip(_)
rstrip(s) ==
    IF Len(s) > 0 /\ At(s, Len(s)) \in Whitespace
    THEN rstrip(SubSeq(s, 1, Len(s) - 1))
    ELSE s

strip(s) == rstrip(lstrip(s))

startswith(s, p) == Len(s) >= Len(p) /\ SubSeq(s, 1, Len(p)) = p

endswith(s, p) ==
    Len(s) >= Len(p) /\ SubSeq(s, Len(s) - Len(p) + 1, Len(s)) = p

\* s[n:]
SliceFrom(s, n) == IF n >= Len(s) THEN "" ELSE SubSeq(s, n + 1, Len(s))

\* s[:-n]
SliceDropLast(s, n) == IF n >= Len(s) THEN "" ELSE SubSeq(s, 1, Len(s) - n)

\* s[:n]
SliceTo(s, n) == IF n >= Len(s) THEN s ELSE SubSeq(s, 1, n)

\* The positions of character c in s.
Positions(s, c) == {i \in 1..Len(s) : At(s, i) = c}

SetMin(S) == CHOOSE x \in S : \A y \in S : x <= y

SetMax(S) == CHOOSE x \in S : \A y \in S : x >= y

(***************************************************************************)
(* json.loads.  A parsed value is a tagged record.  The parser covers      *)
(* objects, arrays, strings with the escapes \" \\ \/ \n \t, integers,     *)
(* decimal fractions, true, false and null; every text used below lies in  *)
(* that fragment.  A failure is json.JSONDecodeError.                      *)
(***************************************************************************)
JNull == [t |-> "null"]

JBool(b) == [t |-> "bool", b |-> b]

JInt(n) == [t |-> "int", n |-> n]

\* A number with a fraction: neg its sign, n its magnitude truncated to an
\* integer, f the digits of its fraction.
JFloat(neg, n, f) == [t |-> "float", neg |-> neg, n |-> n, f |-> f]

JStr(s) == [t |-> "str", s |-> s]

JList(items) == [t |-> "list", items |-> items]

\* pairs: the members in the order of the text, <<key, value>>.
JDict(pairs) == [t |-> "dict", pairs |-> pairs]

Fail == [ok |-> FALSE]

Ok(v, i) == [ok |-> TRUE, v |-> v, i |-> i]

Digits == "0123456789"

IsDigit(c) == c # "" /\ Positions(Digits, c) # {}

DigitValue(c) == SetMin(Positions(Digits, c)) - 1

JsonWhitespace == {" ", "\t", "\n", "\r"}

RECURSIVE SkipWs(_, _)
SkipWs(s, i) == IF At(s, i) \in JsonWhitespace THEN SkipWs(s, i + 1) ELSE i

\* The digits from position i on: [n |-> their value, i |-> the position
\* after them, d |-> the digits].
RECURSIVE ScanDigits(_, _, _, _)
ScanDigits(s, i, acc, ds) ==
    IF IsDigit(At(s, i))
    THEN ScanDigits(s, i + 1, acc * 10 + DigitValue(At(s, i)), ds \o At(s, i))
    ELSE [n |-> acc, i |-> i, d |-> ds]

ParseNumber(s, i) ==
    LET neg   == At(s, i) = "-"
        j     == IF neg THEN i + 1 ELSE i
        whole == IF At(s, j) = "0"
                 THEN [n |-> 0, i |-> j + 1, d |-> "0"]
                 ELSE ScanDigits(s, j, 0, "")
        val   == IF neg THEN 0 - whole.n ELSE whole.n
        frac  == ScanDigits(s, whole.i + 1, 0, "")
    IN  IF whole.d = "" THEN Fail
        ELSE IF At(s, whole.i) = "." /\ frac.d # ""
             THEN Ok(JFloat(neg, whole.n, frac.d), frac.i)
             ELSE Ok(JInt(val), whole.i)

\* The body of a string literal from position i (after the opening quote):
\* the text up to the next quote, backslash or control character is taken
\* whole; an escape is decoded and the scan goes on after it.
RECURSIVE ScanString(_, _, _)
ScanString(s, i, acc) ==
    LET specials == {j \in i..Len(s) :
                       At(s, j) \in {"\"", "\\", "\n", "\t", "\r", "\f"}}
        j        == SetMin(specials)
        c        == At(s, j)
        e        == At(s, j + 1)
        chunk    == acc \o (IF j > i THEN SubSeq(s, i, j - 1) ELSE "")
    IN  IF specials = {} THEN Fail
        ELSE IF c = "\"" THEN Ok(JStr(chunk), j + 1)
        ELSE IF c = "\\"
             THEN IF e \in {"\"", "\\", "/"}
                  THEN ScanString(s, j + 2, chunk \o e)
                  ELSE IF e = "n" THEN ScanString(s, j + 2, chunk \o "\n")
                  ELSE IF e = "t" THEN ScanString(s, j + 2, chunk \o "\t")
                  ELSE Fail
        ELSE Fail

RECURSIVE ParseValue(_, _)
RECURSIVE ParseItems(_, _, _)
RECURSIVE ParseMembers(_, _, _)

\* The items of an array from position i (at an item), up to the "]".
ParseItems(s, i, acc) ==
    LET item == ParseValue(s, i)
        j    == SkipWs(s, item.i)
    IN  IF ~item.ok THEN Fail
        ELSE IF At(s, j) = "]" THEN Ok(JList(Append(acc, item.v)), j + 1)
        ELSE IF At(s, j) = ","
             THEN ParseItems(s, SkipWs(s, j + 1), Append(acc, item.v))
        ELSE Fail

\* The members of an object from position i (at a key), up to the "}".
ParseMembers(s, i, acc) ==
    LET key   == IF At(s, i) = "\"" THEN ScanString(s, i + 1, "") ELSE Fail
        colon == SkipWs(s, key.i)
        val   == ParseValue(s, SkipWs(s, colon + 1))
        j     == SkipWs(s, val.i)
        pairs == Append(acc, <<key.v.s, val.v>>)
    IN  IF ~key.ok THEN Fail
        ELSE IF At(s, colon) # ":" THEN Fail
        ELSE IF ~val.ok THEN Fail
        ELSE IF At(s, j) = "}" THEN Ok(JDict(pairs), j + 1)
        ELSE IF At(s, j) = "," THEN ParseMembers(s, SkipWs(s, j + 1), pairs)
        ELSE Fail

ParseValue(s, i) ==
    LET c == At(s, i)
    IN  IF c = "\"" THEN ScanString(s, i + 1, "")
        ELSE IF c = "{"
             THEN IF At(s, SkipWs(s, i + 1)) = "}"
                  THEN Ok(JDict(<<>>), SkipWs(s, i + 1) + 1)
                  ELSE ParseMembers(s, SkipWs(s, i + 1), <<>>)
        ELSE IF c = "["
             THEN IF At(s, SkipWs(s, i + 1)) = "]"
                  THEN Ok(JList(<<>>), SkipWs(s, i + 1) + 1)
                  ELSE ParseItems(s, SkipWs(s, i + 1), <<>>)
        ELSE IF startswith(SliceFrom(s, i - 1), "true")
             THEN Ok(JBool(TRUE), i + 4)
        ELSE IF startswith(SliceFrom(s, i - 1), "false")
             THEN Ok(JBool(FALSE), i + 5)
        ELSE IF startswith(SliceFrom(s, i - 1), "null") THEN Ok(JNull, i + 4)
        ELSE IF c = "-" \/ IsDigit(c) THEN ParseNumber(s, i)
        ELSE Fail

\* json.loads(s): [ok |-> FALSE] stands for JSONDecodeError.
json_loads(s) ==
    LET r == ParseValue(s, SkipWs(s, 1))
    IN  IF r.ok /\ SkipWs(s, r.i) = Len(s) + 1 THEN r ELSE Fail

(***************************************************************************)
(* Python's dict.get, bool(), int(), str() and repr() on parsed values.    *)
(* A conversion that raises yields [ok |-> FALSE, exc |-> its class].      *)
(***************************************************************************)
Raise(exc) == [ok |-> FALSE, exc |-> exc]

Return(v) == [ok |-> TRUE, v |-> v]

HasKey(d, k) == \E i \in 1..Len(d.pairs) : d.pairs[i][1] = k

\* d.get(k, default): of members with the same key the last one counts.
Get(d, k, default) ==
    IF HasKey(d, k)
    THEN d.pairs[SetMax({i \in 1..Len(d.pairs) : d.pairs[i][1] = k})][2]
    ELSE default

RECURSIVE IntToStr(_)
IntToStr(n) ==
    IF n < 0 THEN "-" \o IntToStr(0 - n)
    ELSE IF n < 10 THEN At(Digits, n + 1)
    ELSE IntToStr(n \div 10) \o At(Digits, (n % 10) + 1)

RECURSIVE StripZeros(_)
StripZeros(f) ==
    IF Len(f) > 1 /\ At(f, Len(f)) = "0"
    THEN StripZeros(SubSeq(f, 1, Len(f) - 1))
    ELSE f

\* bool(v)
PyBool(v) ==
    CASE v.t = "null"  -> FALSE
      [] v.t = "bool"  -> v.b
      [] v.t = "int"   -> v.n # 0
      [] v.t = "float" -> v.n # 0 \/ StripZeros(v.f) # "0"
      [] v.t = "str"   -> v.s # ""
      [] v.t = "list"  -> v.items # <<>>
      [] v.t = "dict"  -> v.pairs # <<>>

\* int(s) of a text: surrounding whitespace and a sign are accepted.
IntOfText(s) ==
    LET body   == strip(s)
        signed == At(body, 1) \in {"-", "+"}
        ds     == IF signed THEN SliceFrom(body, 1) ELSE body
        scan   == ScanDigits(ds, 1, 0, "")
    IN  IF ds # "" /\ scan.d = ds
        THEN Return(IF At(body, 1) = "-" THEN 0 - scan.n ELSE scan.n)
        ELSE Raise("ValueError")

\* int(v)
PyInt(v) ==
    CASE v.t = "int"   -> Return(v.n)
      [] v.t = "bool"  -> Return(IF v.b THEN 1 ELSE 0)
      [] v.t = "float" -> Return(IF v.neg THEN 0 - v.n ELSE v.n)
      [] v.t = "str"   -> IntOfText(v.s)
      [] OTHER         -> Raise("TypeError")

\* One character of a text inside repr's quotes.
ReprChar(c, quote) ==
    CASE c = "\\"  -> "\\\\"
      [] c = "\n"  -> "\\n"
      [] c = "\t"  -> "\\t"
      [] c = "\r"  -> "\\r"
      [] c = quote -> "\\" \o quote
      [] OTHER     -> c

RECURSIVE ReprBody(_, _)
ReprBody(s, quote) ==
    IF s = "" THEN ""
    ELSE ReprChar(At(s, 1), quote) \o ReprBody(SliceFrom(s, 1), quote)

\* repr(s) of a text: double quotes when it holds ' and no ".
ReprText(s) ==
    LET quote == IF Positions(s, "'") # {} /\ Positions(s, "\"") = {}
                 THEN "\"" ELSE "'"
    IN  quote \o ReprBody(s, quote) \o quote

\* The members of a dict as Python keeps them: one per key, at the place of
\* the key's first member, with the value of its last.
DictItems(d) ==
    LET firsts == {i \in 1..Len(d.pairs) :
                     \A j \in 1..(i - 1) : d.pairs[j][1] # d.pairs[i][1]}
        F[i \in 0..Len(d.pairs)] ==
            IF i = 0 THEN <<>>
            ELSE IF i \in firsts
                 THEN Append(F[i - 1],
                             <<d.pairs[i][1], Get(d, d.pairs[i][1], JNull)>>)
                 ELSE F[i - 1]
    IN  F[Len(d.pairs)]

RECURSIVE PyRepr(_)
RECURSIVE ReprJoin(_, _)

\* ", ".join of the reprs of a list's items (dict = FALSE) or of a dict's
\* members (dict = TRUE).
ReprJoin(xs, dict) ==
    IF xs = <<>> THEN ""
    ELSE LET one == IF dict
                    THEN ReprText(xs[1][1]) \o ": " \o PyRepr(xs[1][2])
                    ELSE PyRepr(xs[1])
         IN  IF Len(xs) = 1 THEN one
             ELSE one \o ", " \o ReprJoin(Tail(xs), dict)

\* repr(v)
PyRepr(v) ==
    CASE v.t = "null"  -> "None"
      [] v.t = "bool"  -> IF v.b THEN "True" ELSE "False"
      [] v.t = "int"   -> IntToStr(v.n)
      [] v.t = "float" -> (IF v.neg THEN "-" ELSE "") \o IntToStr(v.n)
                            \o "." \o StripZeros(v.f)
      [] v.t = "str"   -> ReprText(v.s)
      [] v.t = "list"  -> "[" \o ReprJoin(v.items, FALSE) \o "]"
      [] v.t = "dict"  -> "{" \o ReprJoin(DictItems(v), TRUE) \o "}"

\* str(v)
PyStr(v) == IF v.t = "str" THEN v.s ELSE PyRepr(v)

(***************************************************************************)
(* clean_and_parse_json.                                                   *)
(***************************************************************************)
TaggedFence == "~~~json"

Fence == "~~~"

TaggedFenceLen == 7

FenceLen == 3

ExcerptLen == 200

\* re.search(r'\{.*\}', cleaned, re.DOTALL): the span from the first "{" to
\* the last "}" after it; [found |-> FALSE] when there is none.
re_search(cleaned) ==
    LET opens  == Positions(cleaned, "{")
        closes == Positions(cleaned, "}")
    IN  IF opens # {} /\ closes # {} /\ SetMax(closes) > SetMin(opens)
        THEN [found |-> TRUE,
              group |-> SubSeq(cleaned, SetMin(opens), SetMax(closes))]
        ELSE [found |-> FALSE]

\* Lines 83-89: the text stripped of whitespace and of its fence markers.
StripFences(response_text) ==
    LET c0 == strip(response_text)
        c1 == IF startswith(c0, TaggedFence)
              THEN SliceFrom(c0, TaggedFenceLen) ELSE c0
        c2 == IF startswith(c1, Fence) THEN SliceFrom(c1, FenceLen) ELSE c1
    IN  IF endswith(c2, Fence) THEN SliceDropLast(c2, FenceLen) ELSE c2

\* Mutant: the pattern search of lines 92-94 is missing.
NarrowNone(cleaned) == cleaned

\* Lines 91-94: the text narrowed to the span of the pattern, if it matches.
Narrow(cleaned) ==
    LET json_match == re_search(cleaned)
    IN  IF json_match.found THEN json_match.group ELSE cleaned

\* Mutant: the keys of lines 104-105 in the other order, reasoning before
\* explanation and suggestions before correction.
FormatResultReasoningFirst(result) ==
    LET is_correct  == Get(result, "is_correct", JBool(FALSE))
        confidence  == PyInt(Get(result, "confidence", JInt(50)))
        reasoning   == Get(result, "reasoning",
                           Get(result, "explanation",
                               JStr("No reasoning provided.")))
        suggestions == Get(result, "suggestions",
                           Get(result, "correction",
                               JStr("No suggestions provided.")))
    IN  IF result.t # "dict" THEN Raise("AttributeError")
        ELSE IF ~confidence.ok THEN confidence
        ELSE Return([is_correct  |-> PyBool(is_correct),
                     confidence  |-> confidence.v,
                     reasoning   |-> PyStr(reasoning),
                     suggestions |-> PyStr(suggestions)])

\* Lines 101-106: the mapping of the parsed value to the four fields; a call
\* of .get on a value that is no dict raises AttributeError.
FormatResult(result) ==
    LET is_correct  == Get(result, "is_correct", JBool(FALSE))
        confidence  == PyInt(Get(result, "confidence", JInt(50)))
        reasoning   == Get(result, "explanation",
                           Get(result, "reasoning",
                               JStr("No reasoning provided.")))
        suggestions == Get(result, "correction",
                           Get(result, "suggestions",
                               JStr("No suggestions provided.")))
    IN  IF result.t # "dict" THEN Raise("AttributeError")
        ELSE IF ~confidence.ok THEN confidence
        ELSE Return([is_correct  |-> PyBool(is_correct),
                     confidence  |-> confidence.v,
                     reasoning   |-> PyStr(reasoning),
                     suggestions |-> PyStr(suggestions)])

\* Mutant: the excerpt of line 114 is not cut to 200 characters.
DefaultResultUncut(exc, response_text) ==
    [is_correct  |-> FALSE,
     confidence  |-> 50,
     reasoning   |-> "Could not parse AI response: " \o exc
                       \o ". Raw response: " \o response_text \o "...",
     suggestions |-> "Please try rephrasing your input or try again."]

\* Lines 110-116: the default structure.  The message of the exception is
\* kept as the name of its class.
DefaultResult(exc, response_text) ==
    [is_correct  |-> FALSE,
     confidence  |-> 50,
     reasoning   |-> "Could not parse AI response: " \o exc
                       \o ". Raw response: "
                       \o SliceTo(response_text, ExcerptLen) \o "...",
     suggestions |-> "Please try rephrasing your input or try again."]

clean_and_parse_json(response_text) ==
    LET cleaned   == Narrow(StripFences(response_text))
        parsed    == json_loads(cleaned)
        formatted == FormatResult(parsed.v)
    IN  IF ~parsed.ok THEN DefaultResult("JSONDecodeError", response_text)
        ELSE IF ~formatted.ok THEN DefaultResult(formatted.exc, response_text)
        ELSE formatted.v

(***************************************************************************)
(* Start-up: the loop of get_gemini_model (lines 30-41) and the            *)
(* module-level try/except that stores its result (lines 44-48).  One      *)
(* iteration of the loop, with its blocking probe, is one step.            *)
(***************************************************************************)
ProbeOutcomes == {"ok", "fail"}

\* Mutant: a successful probe does not end the loop (the `return model` of
\* line 36 is missing), so a later candidate can replace the handle.
ProbeNoReturn ==
    /\ pc_init = "probing"
    /\ idx <= Len(model_options)
    /\ \E outcome \in ProbeOutcomes :
         /\ probes' = Append(probes, <<model_options[idx], outcome>>)
         /\ model' = IF outcome = "ok" THEN model_options[idx] ELSE model
         /\ pc_init' = IF outcome = "ok" /\ idx = Len(model_options)
                       THEN "serving" ELSE "probing"
         /\ idx' = IF outcome = "ok" /\ idx = Len(model_options)
                   THEN idx ELSE idx + 1
    /\ UNCHANGED <<pc, req, user_input, reply, calls, resp, lm_resp>>

\* Lines 30-39: the probe of candidate idx; on success the handle is
\* returned and stored (line 45), on an exception the loop goes on.
Probe ==
    /\ pc_init = "probing"
    /\ idx <= Len(model_options)
    /\ \E outcome \in ProbeOutcomes :
         /\ probes' = Append(probes, <<model_options[idx], outcome>>)
         /\ IF outcome = "ok"
            THEN /\ model' = model_options[idx]
                 /\ pc_init' = "serving"
                 /\ idx' = idx
            ELSE /\ idx' = idx + 1
                 /\ UNCHANGED <<model, pc_init>>
    /\ UNCHANGED <<pc, req, user_input, reply, calls, resp, lm_resp>>

\* Lines 41 and 46-48: every candidate failed; the exception is caught and
\* the handle is None.
NoModelAvailable ==
    /\ pc_init = "probing"
    /\ idx > Len(model_options)
    /\ model' = None
    /\ pc_init' = "serving"
    /\ UNCHANGED <<idx, probes, pc, req, user_input, reply, calls, resp,
                   lm_resp>>

\* GenerativeModel.model_name: the identifier, under "models/".
model_name(handle) ==
    IF Positions(handle, "/") = {} THEN "models/" \o handle ELSE handle

(***************************************************************************)
(* verify_input.  A request is [ctype, body]; the body either does not     *)
(* parse as JSON or carries the parsed value.  A response is               *)
(* [status, success, error, result, model_used], result holding the        *)
(* VerificationResult of a 200 and nothing otherwise.                      *)
(***************************************************************************)
MaxInputLen == 5000

MaxListed == 3

JsonType == "application/json"

Malformed == [parses |-> FALSE]

Parsed(v) == [parses |-> TRUE, v |-> v]

Request(ctype, body) == [ctype |-> ctype, body |-> body]

\* request.is_json
is_json(q) == q.ctype = JsonType

Response(status, error) ==
    [status |-> status, success |-> FALSE, error |-> error,
     result |-> <<>>, model_used |-> ""]

\* Lines 228-234: the catch-all of the handler.
Unexpected == Response(500, "An unexpected error occurred. Please try again.")

Proceed(text) == [go |-> TRUE, user_input |-> text]

Answer(response) == [go |-> FALSE, resp |-> response]

\* Mutant: the handle is tested before the request is validated.
ValidateHandleFirst(q, handle) ==
    LET json_data == q.body.v
        input     == Get(json_data, "input", JStr(""))
        text      == strip(input.s)
    IN  IF handle = None
        THEN Answer(Response(500,
                 "Gemini model not available. Please check server logs."))
        ELSE IF ~is_json(q)
        THEN Answer(Response(400, "Content-Type must be application/json"))
        ELSE IF ~q.body.parses THEN Answer(Unexpected)
        ELSE IF json_data.t = "null"
        THEN Answer(Response(400, "Invalid JSON data"))
        ELSE IF json_data.t # "dict" THEN Answer(Unexpected)
        ELSE IF input.t # "str" THEN Answer(Unexpected)
        ELSE IF text = "" THEN Answer(Response(400, "No input provided"))
        ELSE IF Len(text) > MaxInputLen
        THEN Answer(Response(400, "Input too long (max 5000 characters)"))
        ELSE Proceed(text)

\* Mutant: the length of the input is tested before it is trimmed.
ValidateUntrimmed(q, handle) ==
    LET json_data == q.body.v
        input     == Get(json_data, "input", JStr(""))
        text      == strip(input.s)
    IN  IF ~is_json(q)
        THEN Answer(Response(400, "Content-Type must be application/json"))
        ELSE IF ~q.body.parses THEN Answer(Unexpected)
        ELSE IF json_data.t = "null"
        THEN Answer(Response(400, "Invalid JSON data"))
        ELSE IF json_data.t # "dict" THEN Answer(Unexpected)
        ELSE IF input.t # "str" THEN Answer(Unexpected)
        ELSE IF text = "" THEN Answer(Response(400, "No input provided"))
        ELSE IF Len(input.s) > MaxInputLen
        THEN Answer(Response(400, "Input too long (max 5000 characters)"))
        ELSE IF handle = None
        THEN Answer(Response(500,
                 "Gemini model not available. Please check server logs."))
        ELSE Proceed(text)

\* Mutant: the test of the handle (lines 152-156) is missing.
ValidateNoHandleTest(q, handle) ==
    LET json_data == q.body.v
        input     == Get(json_data, "input", JStr(""))
        text      == strip(input.s)
    IN  IF ~is_json(q)
        THEN Answer(Response(400, "Content-Type must be application/json"))
        ELSE IF ~q.body.parses THEN Answer(Unexpected)
        ELSE IF json_data.t = "null"
        THEN Answer(Response(400, "Invalid JSON data"))
        ELSE IF json_data.t # "dict" THEN Answer(Unexpected)
        ELSE IF input.t # "str" THEN Answer(Unexpected)
        ELSE IF text = "" THEN Answer(Response(400, "No input provided"))
        ELSE IF Len(text) > MaxInputLen
        THEN Answer(Response(400, "Input too long (max 5000 characters)"))
        ELSE Proceed(text)

\* Lines 120-156: the request up to the generation call.  request.get_json
\* raises on a body that does not parse, .get on a value that is no dict and
\* .strip on a value that is no text raise AttributeError; the handler's
\* catch-all (line 228) answers each of them.
Validate(q, handle) ==
    LET json_data == q.body.v
        input     == Get(json_data, "input", JStr(""))
        text      == strip(input.s)
    IN  IF ~is_json(q)
        THEN Answer(Response(400, "Content-Type must be application/json"))
        ELSE IF ~q.body.parses THEN Answer(Unexpected)
        ELSE IF json_data.t = "null"
        THEN Answer(Response(400, "Invalid JSON data"))
        ELSE IF json_data.t # "dict" THEN Answer(Unexpected)
        ELSE IF input.t # "str" THEN Answer(Unexpected)
        ELSE IF text = "" THEN Answer(Response(400, "No input provided"))
        ELSE IF Len(text) > MaxInputLen
        THEN Answer(Response(400, "Input too long (max 5000 characters)"))
        ELSE IF handle = None
        THEN Answer(Response(500,
                 "Gemini model not available. Please check server logs."))
        ELSE Proceed(text)

NoRequest == [ctype |-> "", body |-> Malformed]

NoResponse == [status |-> 0, success |-> FALSE, error |-> "",
               result |-> <<>>, model_used |-> ""]

\* Lines 120-192: a request arrives at an idle slot and is handled up to its
\* response or up to the generation call, which blocks.
Receive(r, Q) ==
    /\ pc_init = "serving"
    /\ pc[r] = "idle"
    /\ \E q \in Q :
         LET v == Validate(q, model)
         IN  /\ req' = [req EXCEPT ![r] = q]
             /\ reply' = [reply EXCEPT ![r] = <<>>]
             /\ IF v.go
                THEN /\ pc' = [pc EXCEPT ![r] = "generating"]
                     /\ user_input' = [user_input EXCEPT ![r] = v.user_input]
                     /\ calls' = [calls EXCEPT ![r] = <<"generate_content">>]
                     /\ resp' = [resp EXCEPT ![r] = NoResponse]
                ELSE /\ pc' = [pc EXCEPT ![r] = "done"]
                     /\ user_input' = [user_input EXCEPT ![r] = ""]
                     /\ calls' = [calls EXCEPT ![r] = <<>>]
                     /\ resp' = [resp EXCEPT ![r] = v.resp]
    /\ UNCHANGED <<pc_init, idx, probes, model, lm_resp>>

\* What generate_content returns: an exception, a response without a text
\* attribute, or a response with a text.
GenError(msg) == [kind |-> "error", msg |-> msg]

GenNoText == [kind |-> "notext"]

GenText(text) == [kind |-> "text", text |-> text]

\* What genai.list_models() returns: an exception or the catalogue, each
\* entry [name, methods].
ListError(msg) == [ok |-> FALSE, msg |-> msg]

Listed(catalogue) == [ok |-> TRUE, models |-> catalogue]

\* The names of the entries that support generateContent, in order.
RECURSIVE Generating(_)
Generating(catalogue) ==
    IF catalogue = <<>> THEN <<>>
    ELSE IF "generateContent" \in Head(catalogue).methods
         THEN <<Head(catalogue).name>> \o Generating(Tail(catalogue))
         ELSE Generating(Tail(catalogue))

\* ', '.join(names)
RECURSIVE Join(_)
Join(names) ==
    IF names = <<>> THEN ""
    ELSE IF Len(names) = 1 THEN names[1]
    ELSE names[1] \o ", " \o Join(Tail(names))

\* Lines 209-226: the response to a reply that is no exception.
Process(rep, handle) ==
    IF rep.kind = "notext" \/ rep.text = ""
    THEN Response(500, "No response text received from Gemini API")
    ELSE [status |-> 200, success |-> TRUE, error |-> "",
          result |-> <<clean_and_parse_json(strip(rep.text))>>,
          model_used |-> IF handle # None THEN model_name(handle)
                         ELSE "unknown"]

\* Mutant: an upstream error drops the shared handle.
GenerateReturnsDropsHandle(r, G) ==
    /\ pc[r] = "generating"
    /\ \E rep \in G :
         /\ reply' = [reply EXCEPT ![r] = <<rep>>]
         /\ IF rep.kind = "error"
            THEN /\ pc' = [pc EXCEPT ![r] = "listing"]
                 /\ calls' = [calls EXCEPT ![r] = Append(@, "list_models")]
                 /\ model' = None
                 /\ UNCHANGED resp
            ELSE /\ pc' = [pc EXCEPT ![r] = "done"]
                 /\ resp' = [resp EXCEPT ![r] = Process(rep, model)]
                 /\ UNCHANGED <<calls, model>>
    /\ UNCHANGED <<pc_init, idx, probes, req, user_input, lm_resp>>

\* Lines 189-226: the generation call returns.  An exception leads to the
\* call of list_models (line 197), which blocks; anything else is answered.
GenerateReturns(r, G) ==
    /\ pc[r] = "generating"
    /\ \E rep \in G :
         /\ reply' = [reply EXCEPT ![r] = <<rep>>]
         /\ IF rep.kind = "error"
            THEN /\ pc' = [pc EXCEPT ![r] = "listing"]
                 /\ calls' = [calls EXCEPT ![r] = Append(@, "list_models")]
                 /\ UNCHANGED resp
            ELSE /\ pc' = [pc EXCEPT ![r] = "done"]
                 /\ resp' = [resp EXCEPT ![r] = Process(rep, model)]
                 /\ UNCHANGED calls
    /\ UNCHANGED <<pc_init, idx, probes, model, req, user_input, lm_resp>>

\* Lines 194-207: the error detail, with up to three of the listed names
\* when list_models succeeded.
ErrorDetails(msg, listing) ==
    IF listing.ok
    THEN msg \o " | Available models: "
             \o Join(SubSeq(Generating(listing.models), 1,
                            IF Len(Generating(listing.models)) < MaxListed
                            THEN Len(Generating(listing.models))
                            ELSE MaxListed))
    ELSE msg

\* Lines 196-207: list_models returns, or raises, and the error is answered.
ListReturns(r, L) ==
    /\ pc[r] = "listing"
    /\ \E listing \in L :
         /\ reply' = [reply EXCEPT ![r] = Append(@, listing)]
         /\ resp' = [resp EXCEPT ![r] =
                Response(500, "Failed to generate content: "
                                \o ErrorDetails(reply[r][1].msg, listing))]
    /\ pc' = [pc EXCEPT ![r] = "done"]
    /\ UNCHANGED <<pc_init, idx, probes, model, req, user_input, calls,
                   lm_resp>>

\* The response is sent and the request and its locals are gone.
Complete(r) ==
    /\ pc[r] = "done"
    /\ pc' = [pc EXCEPT ![r] = "idle"]
    /\ req' = [req EXCEPT ![r] = NoRequest]
    /\ user_input' = [user_input EXCEPT ![r] = ""]
    /\ reply' = [reply EXCEPT ![r] = <<>>]
    /\ calls' = [calls EXCEPT ![r] = <<>>]
    /\ resp' = [resp EXCEPT ![r] = NoResponse]
    /\ UNCHANGED <<pc_init, idx, probes, model, lm_resp>>

(***************************************************************************)
(* list_models (lines 54-77), a handler of one step: the names of the      *)
(* entries that support generateContent, or status 500.                    *)
(***************************************************************************)
list_models(L) ==
    /\ pc_init = "serving"
    /\ \E listing \in L :
         lm_resp' = IF listing.ok
                    THEN [status |-> 200, success |-> TRUE, error |-> "",
                          models |-> Generating(listing.models)]
                    ELSE [status |-> 500, success |-> FALSE,
                          error |-> listing.msg, models |-> <<>>]
    /\ UNCHANGED <<pc_init, idx, probes, model, pc, req, user_input, reply,
                   calls, resp>>

(***************************************************************************)
(* The inputs of the model: requests, upstream replies, catalogues.        *)
(***************************************************************************)
\* n copies of s.
RECURSIVE Rep(_, _)
Rep(s, n) ==
    IF n <= 0 THEN ""
    ELSE LET half == Rep(s, n \div 2)
         IN  half \o half \o (IF n % 2 = 1 THEN s ELSE "")

InputRequest(text) ==
    Request(JsonType, Parsed(JDict(<< <<"input", JStr(text)>> >>)))

\* An input of trimmed length n inside a spaces before and b newlines after;
\* from length 3 on it holds a space of its own.
Padded(a, n, b) ==
    Rep(" ", a)
      \o (IF n >= 3 THEN "a " \o Rep("b", n - 2) ELSE Rep("a", n))
      \o Rep("\n", b)

CleanJson ==
    "{\"is_correct\": true, \"confidence\": 90, \"explanation\": \"ok\", "
      \o "\"correction\": \"None\"}"

Catalogue ==
    << [name |-> "models/gemini-1.5-flash",
        methods |-> {"generateContent", "countTokens"}],
       [name |-> "models/embedding-001", methods |-> {"embedContent"}],
       [name |-> "models/gemini-1.5-pro", methods |-> {"generateContent"}],
       [name |-> "models/gemini-pro", methods |-> {"generateContent"}],
       [name |-> "models/gemini-1.0-pro", methods |-> {"generateContent"}] >>

Listings == {ListError("503 unavailable"), Listed(Catalogue)}

\* Requests of every class of the handler: a content type that is not JSON,
\* a body that does not parse, bodies that are no object with a text input,
\* and inputs that are missing, empty, valid and oversized.
Requests ==
    { Request("text/plain", Malformed),
      Request(JsonType, Malformed),
      Request(JsonType, Parsed(JNull)),
      Request(JsonType, Parsed(JList(<<JInt(1)>>))),
      Request(JsonType, Parsed(JDict(<< <<"input", JInt(5)>> >>))),
      Request(JsonType, Parsed(JDict(<<>>))),
      InputRequest("  "),
      InputRequest(" 2+2=4 "),
      InputRequest("The sky is green"),
      InputRequest(Padded(0, MaxInputLen + 1, 0)) }

Replies ==
    { GenError("429 quota exceeded"),
      GenNoText,
      GenText(""),
      GenText(CleanJson),
      GenText("I cannot help with that") }

(***************************************************************************)
(* The specification: start-up, then NReq request slots served             *)
(* concurrently, and /list-models.                                         *)
(***************************************************************************)
Init ==
    /\ pc_init = "probing"
    /\ idx = 1
    /\ probes = <<>>
    /\ model = None
    /\ pc = [r \in Slots |-> "idle"]
    /\ req = [r \in Slots |-> NoRequest]
    /\ user_input = [r \in Slots |-> ""]
    /\ reply = [r \in Slots |-> <<>>]
    /\ calls = [r \in Slots |-> <<>>]
    /\ resp = [r \in Slots |-> NoResponse]
    /\ lm_resp = [status |-> 0, success |-> FALSE, error |-> "",
                  models |-> <<>>]

Next ==
    \/ Probe
    \/ NoModelAvailable
    \/ \E r \in Slots : Receive(r, Requests)
    \/ \E r \in Slots : GenerateReturns(r, Replies)
    \/ \E r \in Slots : ListReturns(r, Listings)
    \/ \E r \in Slots : Complete(r)
    \/ list_models(Listings)

Spec == Init /\ [][Next]_vars

(***************************************************************************)
(* Properties of the specification Spec.                                   *)
(***************************************************************************)
AllProbesFailed ==
    /\ Len(probes) = Len(model_options)
    /\ \A i \in 1..Len(probes) : probes[i][2] = "fail"

Handling(r) == pc[r] # "idle"

\* The request carries a JSON object whose input is a text.
HasTextInput(q) ==
    /\ is_json(q)
    /\ q.body.parses
    /\ q.body.v.t = "dict"
    /\ HasKey(q.body.v, "input")
    /\ Get(q.body.v, "input", JNull).t = "str"

\* The request carries a JSON object without an input key.
LacksInput(q) ==
    /\ is_json(q)
    /\ q.body.parses
    /\ q.body.v.t = "dict"
    /\ ~HasKey(q.body.v, "input")

TrimmedLen(q) == Len(strip(Get(q.body.v, "input", JNull).s))

PassesValidation(q) ==
    HasTextInput(q) /\ TrimmedLen(q) >= 1 /\ TrimmedLen(q) <= MaxInputLen

\* A bad content type, or a missing, empty or oversized input.
FailsValidation(q) ==
    \/ ~is_json(q)
    \/ LacksInput(q)
    \/ HasTextInput(q) /\ (TrimmedLen(q) = 0 \/ TrimmedLen(q) > MaxInputLen)

\* C1: the selector probes the candidates in declared order, makes no probe
\* after a successful one, and the handle it stores is the candidate of the
\* first successful probe (None when every probe failed).
C1_FirstSuccessInOrder ==
    /\ Len(probes) <= Len(model_options)
    /\ \A i \in 1..Len(probes) : probes[i][1] = model_options[i]
    /\ \A i \in 1..(Len(probes) - 1) : probes[i][2] = "fail"
    /\ pc_init = "probing" =>
         /\ \A i \in 1..Len(probes) : probes[i][2] = "fail"
         /\ idx = Len(probes) + 1
    /\ pc_init = "serving" =>
         IF AllProbesFailed THEN model = None
         ELSE /\ probes[Len(probes)][2] = "ok"
              /\ model = probes[Len(probes)][1]

\* C1 witness: only the third candidate succeeded; three probes were made
\* and the handle is the third candidate.
C1_Witness ==
    /\ pc_init = "serving"
    /\ Len(probes) = 3
    /\ probes[3] = <<model_options[3], "ok">>
    /\ model = model_options[3]

\* C2: when every probe failed, start-up ends serving with the handle None;
\* every valid request is then answered 500 with success false, no remote
\* call made for it; the handle stays None and the selector does not run
\* again.
C2_NoHandleIsPermanent ==
    /\ [](AllProbesFailed =>
            /\ pc_init \in {"probing", "serving"}
            /\ pc_init = "serving" => model = None
            /\ \A r \in Slots :
                 Handling(r) /\ PassesValidation(req[r]) =>
                   /\ pc[r] = "done"
                   /\ resp[r].status = 500
                   /\ resp[r].success = FALSE
                   /\ calls[r] = <<>>)
    /\ [][AllProbesFailed /\ pc_init = "serving" =>
            model' = None /\ probes' = probes /\ pc_init' = "serving"]_vars

\* C2 witness: every probe failed and a valid request was answered 500.
C2_Witness ==
    /\ AllProbesFailed
    /\ pc_init = "serving"
    /\ model = None
    /\ \E r \in Slots :
         /\ pc[r] = "done"
         /\ PassesValidation(req[r])
         /\ resp[r].status = 500

\* C4 (as claimed): a request whose payload is not well-formed structured
\* data (a content type that is not JSON, a body that does not parse, a body
\* that is no object with a text input) is answered 400, never 500.
C4_MalformedPayloadIs400 ==
    \A r \in Slots :
      Handling(r) /\ ~HasTextInput(req[r]) =>
        pc[r] = "done" /\ resp[r].status = 400

\* C5: a request that fails validation (bad content type, missing, empty or
\* oversized input) is answered 400 with no remote call made for it, with or
\* without a handle.
C5_InvalidIs400WithoutRemoteCall ==
    \A r \in Slots :
      Handling(r) /\ FailsValidation(req[r]) =>
        /\ pc[r] = "done"
        /\ resp[r].status = 400
        /\ resp[r].success = FALSE
        /\ calls[r] = <<>>

\* C5 witness: the handle is None and requests of two of the classes, one of
\* them oversized, were answered 400.
C5_Witness ==
    /\ pc_init = "serving"
    /\ model = None
    /\ \E r1, r2 \in Slots :
         /\ pc[r1] = "done" /\ pc[r2] = "done"
         /\ ~is_json(req[r1])
         /\ HasTextInput(req[r2]) /\ TrimmedLen(req[r2]) > MaxInputLen
         /\ resp[r1].status = 400 /\ resp[r2].status = 400

\* C10: once start-up is over the handle never changes; a successful request
\* reports the handle the selector stored, and two requests with the same
\* input and the same upstream replies get the same response.
C10_HandleNeverReassigned ==
    /\ [][pc_init = "serving" => model' = model]_vars
    /\ [](\A r \in Slots :
            pc[r] = "done" /\ resp[r].status = 200 =>
              model # None /\ resp[r].model_used = model_name(model))
    /\ [](\A r1, r2 \in Slots :
            /\ pc[r1] = "done" /\ pc[r2] = "done"
            /\ req[r1] = req[r2] /\ reply[r1] = reply[r2]
            => resp[r1] = resp[r2])

\* C10 witness: one request ended in an upstream error while another, with
\* the same input, succeeded on the stored handle.
C10_Witness ==
    \E r1, r2 \in Slots :
      /\ pc[r1] = "done" /\ pc[r2] = "done"
      /\ req[r1] = req[r2]
      /\ Len(reply[r1]) = 2 /\ resp[r1].status = 500
      /\ resp[r2].status = 200 /\ resp[r2].model_used = model_name(model)

(***************************************************************************)
(* The specification of validation: one slot, and inputs whose trimmed     *)
(* length lies on both sides of each limit, inside whitespace.             *)
(***************************************************************************)
MaxPad == 2

MaxOver == 2

BoundaryLens ==
    {0, 1, 2, 3, MaxInputLen - 1, MaxInputLen}
      \cup (MaxInputLen + 1 .. MaxInputLen + MaxOver)

\* <<a, n, b>> |-> the input of trimmed length n padded by a and b.
BoundaryInput ==
    [x \in (0..MaxPad) \X BoundaryLens \X (0..MaxPad) |->
       Padded(x[1], x[2], x[3])]

EmptyObjectRequest == Request(JsonType, Parsed(JDict(<<>>)))

BoundaryRequests ==
    {InputRequest(BoundaryInput[x]) : x \in DOMAIN BoundaryInput}
      \cup {EmptyObjectRequest}

NextValidation ==
    \/ Probe
    \/ NoModelAvailable
    \/ Receive(1, BoundaryRequests)
    \/ GenerateReturns(1, Replies)
    \/ ListReturns(1, Listings)
    \/ Complete(1)

SpecValidation == Init /\ [][NextValidation]_vars

Rejected400(r) ==
    pc[r] = "done" /\ resp[r].status = 400 /\ resp[r].success = FALSE

\* C3: a request {"input": s} is rejected with status 400 and success false
\* exactly when the trimmed length of s is 0 or above 5000, and so is the
\* body {}; an input of trimmed length 1 to 5000 is never answered 400.
C3_ValidExactlyWhenTrimmedLenInRange ==
    \A r \in Slots :
      Handling(r) =>
        /\ \A x \in DOMAIN BoundaryInput :
             req[r] = InputRequest(BoundaryInput[x]) =>
               (Rejected400(r) <=> x[2] \notin 1..MaxInputLen)
               /\ (x[2] \in 1..MaxInputLen => resp[r].status # 400)
        /\ req[r] = EmptyObjectRequest => Rejected400(r)

\* C3 witness: an input of trimmed length 5000 inside whitespace, longer
\* than 5000 untrimmed, passed validation and reached the generation call.
C3_Witness ==
    /\ pc[1] = "generating"
    /\ req[1] = InputRequest(BoundaryInput[<<MaxPad, MaxInputLen, MaxPad>>])
    /\ Len(user_input[1]) = MaxInputLen

(***************************************************************************)
(* The specification of the normaliser: one slot, one valid request, and   *)
(* upstream texts of every shape: JSON objects bare, fenced and inside     *)
(* commentary, JSON that is no object, malformed JSON, prose, long texts.  *)
(***************************************************************************)
FencedExample ==
    "{\"is_correct\": false, \"confidence\": 10, \"reasoning\": \"bad\", "
      \o "\"suggestions\": \"fix it\"}"

BothKeys ==
    "{\"reasoning\": \"r\", \"explanation\": \"e\", "
      \o "\"suggestions\": \"s\", \"correction\": \"c\"}"

\* Texts that are valid JSON objects.
Objects ==
    { CleanJson,
      FencedExample,
      BothKeys,
      "{}",
      "{\"is_correct\": true, \"confidence\": 150, \"reasoning\": \"sure\"}",
      "{\"confidence\": -5}",
      "{\"confidence\": \"high\"}",
      "{\"confidence\": null, \"reasoning\": \"r\"}",
      "{\"confidence\": \" 90 \", \"is_correct\": \"false\"}",
      "{\"confidence\": 99.5, \"is_correct\": 0}",
      "{\"reasoning\": null, \"suggestions\": 5}",
      "{\"explanation\": {\"a\": [1, \"x\"]}, \"suggestions\": [\"do {it}\"]}",
      "{\n  \"is_correct\": true,\n  \"confidence\": 80\n}" }

Prefixes ==
    { "", "~~~json\n", "~~~\n", "~~~json", "  \n",
      "Here is the assessment:\n", "Sure!\n~~~json\n", "Result {draft}: " }

Suffixes ==
    { "", "\n~~~", "~~~", "\nHope this helps.", "\n~~~\nLet me know.",
      " (see {notes})" }

\* <<prefix, object, suffix>> |-> the object wrapped.
Wrapped ==
    [x \in Prefixes \X Objects \X Suffixes |-> x[1] \o x[2] \o x[3]]

MaxLong == 2

\* Prose and a JSON object of lengths around the length of the excerpt.
LongTexts ==
    {"I cannot " \o Rep("z", n) : n \in (ExcerptLen - 10)..(ExcerptLen - 9 + MaxLong)}
      \cup {"{\"confidence\": \"" \o Rep("h", ExcerptLen + MaxLong) \o "\"}"}

OtherTexts ==
    { "I cannot help with that", "[1, 2]", "42", "\"just text\"", "null",
      "true", "  ", "{", "}{", "~~~json\n~~~", "{\"is_correct\": true",
      "{'is_correct': True}", "~~~json\n[{\"confidence\": 7}]\n~~~",
      "{\"confidence\": 07}", "{\"confidence\": 1,}" }

RawTexts == {Wrapped[x] : x \in DOMAIN Wrapped} \cup LongTexts \cup OtherTexts

NormalizerReplies == {GenText(t) : t \in RawTexts}

NextNormalizer ==
    \/ Probe
    \/ NoModelAvailable
    \/ Receive(1, {InputRequest("The sky is green")})
    \/ GenerateReturns(1, NormalizerReplies)
    \/ Complete(1)

SpecNormalizer == Init /\ [][NextNormalizer]_vars

(***************************************************************************)
(* Properties of the specification SpecNormalizer.                         *)
(***************************************************************************)
\* The generation call of slot r returned a text that is not empty.
Normalized(r) ==
    /\ pc[r] = "done"
    /\ Len(reply[r]) = 1
    /\ reply[r][1].kind = "text"
    /\ reply[r][1].text # ""

\* The text handed to clean_and_parse_json (line 217).
RawOf(r) == strip(reply[r][1].text)

ResultOf(r) == resp[r].result[1]

Recovered(raw) == json_loads(Narrow(StripFences(raw)))

\* No JSON object is recovered from the text, or its values do not convert.
Degraded(raw) ==
    \/ ~Recovered(raw).ok
    \/ ~FormatResult(Recovered(raw).v).ok

ResultKeys == {"is_correct", "confidence", "reasoning", "suggestions"}

\* C6: whatever text the generation call returned, the request is answered
\* 200 with success true and a result of exactly the four keys; a text that
\* cannot be parsed gives is_correct false, confidence 50 and a reasoning
\* that names the failure and ends with the excerpt of the text, its first
\* 200 characters and no more.
C6_NormalizerNeverFails ==
    \A r \in Slots :
      Normalized(r) =>
        /\ resp[r].status = 200
        /\ resp[r].success = TRUE
        /\ Len(resp[r].result) = 1
        /\ DOMAIN ResultOf(r) = ResultKeys
        /\ Degraded(RawOf(r)) =>
             /\ ResultOf(r).is_correct = FALSE
             /\ ResultOf(r).confidence = 50
             /\ startswith(ResultOf(r).reasoning,
                           "Could not parse AI response: ")
             /\ endswith(ResultOf(r).reasoning,
                         ". Raw response: "
                           \o (IF Len(RawOf(r)) > ExcerptLen
                               THEN SubSeq(RawOf(r), 1, ExcerptLen)
                               ELSE RawOf(r))
                           \o "...")

\* C6 witness: a text longer than 200 characters that cannot be parsed was
\* answered 200 with the default result.
C6_Witness ==
    \E r \in Slots :
      /\ Normalized(r)
      /\ Len(RawOf(r)) > ExcerptLen
      /\ Degraded(RawOf(r))
      /\ resp[r].status = 200
      /\ ResultOf(r).confidence = 50

\* C7 (as claimed): in every result of a successful request confidence is an
\* integer from 0 to 100 and is_correct is a boolean.
C7_ConfidenceInRange ==
    \A r \in Slots :
      pc[r] = "done" /\ resp[r].status = 200 =>
        /\ ResultOf(r).confidence \in 0..100
        /\ ResultOf(r).is_correct \in BOOLEAN

\* The text form of the value of key k of object d, of key alt when k is
\* absent, of default when both are.
Preferring(d, k, alt, default) ==
    IF HasKey(d, k) THEN PyStr(Get(d, k, JNull))
    ELSE IF HasKey(d, alt) THEN PyStr(Get(d, alt, JNull))
    ELSE default

\* C8 (as claimed): for an output from which an object is recovered, the
\* reasoning is the object's reasoning value, explanation being the fallback
\* key, and the suggestions its suggestions value, correction being the
\* fallback key.
C8_ReasoningKeyFirst ==
    \A r \in Slots :
      Normalized(r) /\ ~Degraded(RawOf(r)) =>
        LET d == Recovered(RawOf(r)).v
        IN  /\ ResultOf(r).reasoning =
                 Preferring(d, "reasoning", "explanation",
                            "No reasoning provided.")
            /\ ResultOf(r).suggestions =
                 Preferring(d, "suggestions", "correction",
                            "No suggestions provided.")

\* C8 (amended): for an output from which an object is recovered and whose
\* confidence converts to an integer, the reasoning is the text form of the
\* object's explanation value, reasoning being the fallback key, and the
\* suggestions that of its correction value, suggestions being the fallback
\* key; the example of the claim gives exactly the result it states.
C8_ExplanationKeyFirst ==
    \A r \in Slots :
      Normalized(r) =>
        /\ ~Degraded(RawOf(r)) =>
             LET d == Recovered(RawOf(r)).v
             IN  /\ ResultOf(r).reasoning =
                      Preferring(d, "explanation", "reasoning",
                                 "No reasoning provided.")
                 /\ ResultOf(r).suggestions =
                      Preferring(d, "correction", "suggestions",
                                 "No suggestions provided.")
        /\ RawOf(r) = CleanJson =>
             ResultOf(r) = [is_correct |-> TRUE, confidence |-> 90,
                            reasoning |-> "ok", suggestions |-> "None"]

\* C8 witness: an object with all four keys gave the values of explanation
\* and correction.
C8_Witness ==
    \E r \in Slots :
      /\ Normalized(r)
      /\ RawOf(r) = BothKeys
      /\ ResultOf(r).reasoning = "e"
      /\ ResultOf(r).suggestions = "c"

BraceFree(s) == Positions(s, "{") = {} /\ Positions(s, "}") = {}

\* C9 (as claimed): an object wrapped in fence markers and commentary gives
\* the result of the object alone.
C9_WrappingChangesNothing ==
    \A r \in Slots :
      Normalized(r) =>
        \A x \in DOMAIN Wrapped :
          reply[r][1].text = Wrapped[x] =>
            ResultOf(r) = clean_and_parse_json(x[2])

\* C9 (amended): an object whose values convert, wrapped in fence markers
\* and commentary that hold no brace, gives the result of the object alone.
C9_BraceFreeWrappingChangesNothing ==
    \A r \in Slots :
      Normalized(r) =>
        \A x \in DOMAIN Wrapped :
          /\ reply[r][1].text = Wrapped[x]
          /\ BraceFree(x[1]) /\ BraceFree(x[3])
          /\ ~Degraded(x[2])
          => ResultOf(r) = clean_and_parse_json(x[2])

\* C9 witness: an object inside commentary, a tagged fence and a closing
\* fence gave the result of the object alone.
C9_Witness ==
    \E r \in Slots :
      /\ Normalized(r)
      /\ reply[r][1].text =
           Wrapped[<<"Sure!\n~~~json\n", FencedExample, "\n~~~\nLet me know.">>]
      /\ ResultOf(r) = [is_correct |-> FALSE, confidence |-> 10,
                        reasoning |-> "bad", suggestions |-> "fix it"]

====
